---------------------------- MODULE Spec2Model ----------------------------
(***************************************************************************)
(* DbusSignature: the D-Bus type-signature parser of chromeos-dbus-bindings *)
(* as exercised by dbus_signature_unittest.cc.                             *)
(*                                                                         *)
(* A signature is a sequence of one-character strings; a typename is a     *)
(* string.  The test file supplies the signatures, the expected typenames  *)
(* and the calling pattern; the parser it links against (dbus_signature.h  *)
(* and .cc) is modelled from the algorithm of the specification, section    *)
(* 4.1, as a recursive descent run one step at a time over a cursor and an *)
(* explicit recursion stack.                                               *)
(***************************************************************************)
EXTENDS Naturals, Sequences, FiniteSets, TLC

(***************************************************************************)
(* Bounds of the model.                                                    *)
(***************************************************************************)
\* Longest signature enumerated exhaustively over SigAlphabet.
MaxSigLen == 5
\* Number of callers that may run Parse at the same time on one instance.
NumCallers == 2

(***************************************************************************)
(* D-Bus type codes (dbus-protocol.h), as the one-character signatures the *)
(* test uses.                                                              *)
(***************************************************************************)
DBUS_TYPE_BOOLEAN_AS_STRING == <<"b">>
DBUS_TYPE_BYTE_AS_STRING == <<"y">>
DBUS_TYPE_DOUBLE_AS_STRING == <<"d">>
DBUS_TYPE_OBJECT_PATH_AS_STRING == <<"o">>
DBUS_TYPE_INT16_AS_STRING == <<"n">>
DBUS_TYPE_INT32_AS_STRING == <<"i">>
DBUS_TYPE_INT64_AS_STRING == <<"x">>
DBUS_TYPE_STRING_AS_STRING == <<"s">>
DBUS_TYPE_UNIX_FD_AS_STRING == <<"h">>
DBUS_TYPE_UINT16_AS_STRING == <<"q">>
DBUS_TYPE_UINT32_AS_STRING == <<"u">>
DBUS_TYPE_UINT64_AS_STRING == <<"t">>
DBUS_TYPE_VARIANT_AS_STRING == <<"v">>

\* The structural characters of a signature.
DBUS_TYPE_ARRAY == "a"
DBUS_DICT_ENTRY_BEGIN_CHAR == "{"
DBUS_DICT_ENTRY_END_CHAR == "}"

(***************************************************************************)
(* Failing signatures of the test.                                         *)
(***************************************************************************)
kEmptySignature == << >>
kEmptyDictSignature == <<"a", "{", "}">>
kMissingArraryParameterSignature == <<"a">>
kMissingArraryParameterInnerSignature == <<"a", "{", "s", "a", "}", "i">>
kOrphanDictSignature == <<"a", "{", "s", "{", "i", "}", "}">>
kTooFewDictMembersSignature == <<"a", "{", "s", "}">>
kTooManyDictMembersSignature == <<"a", "{", "s", "a", "{", "i", "}", "u", "}">>
kUnclosedDictOuterSignature == <<"a", "{", "s">>
kUnclosedDictInnerSignature == <<"a", "{", "a", "{", "u", "}">>
kUnexpectedCloseSignature == <<"a", "}", "i", "{">>
kUnknownSignature == <<"a", "l">>

(***************************************************************************)
(* Succeeding signatures of the test.                                      *)
(***************************************************************************)
kBoolArraySignature == <<"a", "b">>
kByteArraySignature == <<"a", "y">>
kByteArrayArraySignature == <<"a", "a", "y">>
kObjectArraySignature == <<"a", "o">>
kObjectDictBlobSignature ==
    <<"a", "{", "o", "a", "{", "s", "a", "{", "s", "v", "}", "}", "}">>
kObjectNameDictSignature == <<"a", "{", "o", "s", "}">>
kStringArraySignature == <<"a", "s">>
kStringStringDictSignature == <<"a", "{", "s", "s", "}">>
kStringStringStringDictSignature ==
    <<"a", "{", "s", "a", "{", "s", "s", "}", "}">>
kStringStringVariantDictSignature ==
    <<"a", "{", "s", "a", "{", "s", "v", "}", "}">>
kStringVariantDictSignature == <<"a", "{", "s", "v", "}">>
\* Variant: the trailing-text signature with the closing brace left out.
kStringVariantDictWithTrailingSignature_Unclosed ==
    <<"a", "{", "s", "v", "N", "o", "n", "e", "O", "f", "T", "h", "i",
      "s", "P", "a", "r", "s", "e", "s">>
kStringVariantDictWithTrailingSignature ==
    <<"a", "{", "s", "v", "}", "N", "o", "n", "e", "O", "f", "T", "h", "i",
      "s", "P", "a", "r", "s", "e", "s">>
kUnsigned64ArraySignature == <<"a", "t">>

(***************************************************************************)
(* Typenames the test expects for the signatures above.                    *)
(***************************************************************************)
kBoolArrayTypename == "std::vector<bool>"
kByteArrayTypename == "std::vector<uint8_t>"
\* Variant: the expectation for "aay" written without the inner array.
kByteArrayArrayTypename_Flat == "std::vector<uint8_t>"
kByteArrayArrayTypename == "std::vector<std::vector<uint8_t>>"
\* Variant: the expectation for "ao" written against the default name.
kObjectArrayTypename_DefaultName == "std::vector<dbus::ObjectPath>"
kObjectArrayTypename == "std::vector<ObjectPathType>"
kObjectDictBlobTypename ==
    "std::map<ObjectPathType,std::map<std::string,std::map<std::string,chromeos::Any>>>"
kObjectNameDictTypename == "std::map<ObjectPathType,std::string>"
kStringArrayTypename == "std::vector<std::string>"
kStringStringDictTypename == "std::map<std::string,std::string>"
\* Variant: the expectation for "a{sa{ss}}" written without the inner dict.
kStringStringStringDictTypename_Flat == "std::map<std::string,std::string>"
kStringStringStringDictTypename ==
    "std::map<std::string,std::map<std::string,std::string>>"
kStringStringVariantDictTypename ==
    "std::map<std::string,std::map<std::string,chromeos::Any>>"
kStringVariantDictTypename == "std::map<std::string,chromeos::Any>"
kUnsigned64ArrayTypename == "std::vector<uint64_t>"

\* The object type name the test configures.
kObjectPathTypename == "ObjectPathType"

(***************************************************************************)
(* Typenames of DbusSignature (dbus_signature.h).  The test fixes bool,    *)
(* uint8_t, std::string, chromeos::Any and uint64_t through the container  *)
(* typenames above; the others follow the table of section 6.              *)
(***************************************************************************)
kBooleanTypename == "bool"
kByteTypename == "uint8_t"
kDoubleTypename == "double"
kDefaultObjectPathTypename == "dbus::ObjectPath"
kSigned16Typename == "int16_t"
kSigned32Typename == "int32_t"
kSigned64Typename == "int64_t"
kStringTypename == "std::string"
kUnixFdTypename == "dbus::FileDescriptor"
kUnsigned16Typename == "uint16_t"
kUnsigned32Typename == "uint32_t"
kUnsigned64Typename == "uint64_t"
kVariantTypename == "chromeos::Any"
kArrayTypenamePrefix == "std::vector<"
kDictTypenamePrefix == "std::map<"
kTypenameSeparator == ","
kTypenameSuffix == ">"

\* Variant: the failing list with "a{ss}" in the place of "a{s}".
FailingSignatures_WithValidDict ==
    { kEmptySignature, kEmptyDictSignature, kMissingArraryParameterSignature,
      kMissingArraryParameterInnerSignature, kOrphanDictSignature,
      kStringStringDictSignature, kTooManyDictMembersSignature,
      kUnclosedDictOuterSignature, kUnclosedDictInnerSignature,
      kUnexpectedCloseSignature, kUnknownSignature }

\* The list ParseFailures iterates over.
FailingSignatures ==
    { kEmptySignature, kEmptyDictSignature, kMissingArraryParameterSignature,
      kMissingArraryParameterInnerSignature, kOrphanDictSignature,
      kTooFewDictMembersSignature, kTooManyDictMembersSignature,
      kUnclosedDictOuterSignature, kUnclosedDictInnerSignature,
      kUnexpectedCloseSignature, kUnknownSignature }

\* Variant: the simple-type entries with the names of int16 and int32
\* exchanged.
simple_parse_values_Swapped ==
    { <<DBUS_TYPE_BOOLEAN_AS_STRING, kBooleanTypename>>,
      <<DBUS_TYPE_BYTE_AS_STRING, kByteTypename>>,
      <<DBUS_TYPE_DOUBLE_AS_STRING, kDoubleTypename>>,
      <<DBUS_TYPE_OBJECT_PATH_AS_STRING, kObjectPathTypename>>,
      <<DBUS_TYPE_INT16_AS_STRING, kSigned32Typename>>,
      <<DBUS_TYPE_INT32_AS_STRING, kSigned16Typename>>,
      <<DBUS_TYPE_INT64_AS_STRING, kSigned64Typename>>,
      <<DBUS_TYPE_STRING_AS_STRING, kStringTypename>>,
      <<DBUS_TYPE_UNIX_FD_AS_STRING, kUnixFdTypename>>,
      <<DBUS_TYPE_UINT16_AS_STRING, kUnsigned16Typename>>,
      <<DBUS_TYPE_UINT32_AS_STRING, kUnsigned32Typename>>,
      <<DBUS_TYPE_UINT64_AS_STRING, kUnsigned64Typename>>,
      <<DBUS_TYPE_VARIANT_AS_STRING, kVariantTypename>> }

\* The simple-type entries of the map ParseSuccesses iterates over, as
\* <<signature, expected typename>> pairs.
simple_parse_values ==
    { <<DBUS_TYPE_BOOLEAN_AS_STRING, kBooleanTypename>>,
      <<DBUS_TYPE_BYTE_AS_STRING, kByteTypename>>,
      <<DBUS_TYPE_DOUBLE_AS_STRING, kDoubleTypename>>,
      <<DBUS_TYPE_OBJECT_PATH_AS_STRING, kObjectPathTypename>>,
      <<DBUS_TYPE_INT16_AS_STRING, kSigned16Typename>>,
      <<DBUS_TYPE_INT32_AS_STRING, kSigned32Typename>>,
      <<DBUS_TYPE_INT64_AS_STRING, kSigned64Typename>>,
      <<DBUS_TYPE_STRING_AS_STRING, kStringTypename>>,
      <<DBUS_TYPE_UNIX_FD_AS_STRING, kUnixFdTypename>>,
      <<DBUS_TYPE_UINT16_AS_STRING, kUnsigned16Typename>>,
      <<DBUS_TYPE_UINT32_AS_STRING, kUnsigned32Typename>>,
      <<DBUS_TYPE_UINT64_AS_STRING, kUnsigned64Typename>>,
      <<DBUS_TYPE_VARIANT_AS_STRING, kVariantTypename>> }

\* The complex-type entries of the same map.
complex_parse_values ==
    { <<kBoolArraySignature, kBoolArrayTypename>>,
      <<kByteArraySignature, kByteArrayTypename>>,
      <<kByteArrayArraySignature, kByteArrayArrayTypename>>,
      <<kObjectArraySignature, kObjectArrayTypename>>,
      <<kObjectDictBlobSignature, kObjectDictBlobTypename>>,
      <<kObjectNameDictSignature, kObjectNameDictTypename>>,
      <<kStringArraySignature, kStringArrayTypename>>,
      <<kStringStringDictSignature, kStringStringDictTypename>>,
      <<kStringStringStringDictSignature, kStringStringStringDictTypename>>,
      <<kStringStringVariantDictSignature, kStringStringVariantDictTypename>>,
      <<kStringVariantDictSignature, kStringVariantDictTypename>>,
      <<kStringVariantDictWithTrailingSignature, kStringVariantDictTypename>>,
      <<kUnsigned64ArraySignature, kUnsigned64ArrayTypename>> }

parse_values == simple_parse_values \cup complex_parse_values

SucceedingSignatures == { pv[1] : pv \in parse_values }

(***************************************************************************)
(* The parser (specification, section 4.1).                                *)
(***************************************************************************)
\* The thirteen basic type codes.
BasicCodes == { pv[1][1] : pv \in simple_parse_values }

\* The fixed code -> name table; the object-path code resolves to the
\* configured name.
BasicTypename(code, typename) ==
    CASE code = "b" -> kBooleanTypename
      [] code = "y" -> kByteTypename
      [] code = "d" -> kDoubleTypename
      [] code = "o" -> typename
      [] code = "n" -> kSigned16Typename
      [] code = "i" -> kSigned32Typename
      [] code = "x" -> kSigned64Typename
      [] code = "s" -> kStringTypename
      [] code = "h" -> kUnixFdTypename
      [] code = "q" -> kUnsigned16Typename
      [] code = "u" -> kUnsigned32Typename
      [] code = "t" -> kUnsigned64Typename
      [] code = "v" -> kVariantTypename

\* A caller that is not inside Parse and holds no output.
IdleCall ==
    [ pc |-> "idle", signature |-> << >>, cursor |-> 1, stack |-> << >>,
      name |-> "", result |-> FALSE, output |-> "", prior |-> << >> ]

\* Entry to Parse: the cursor at the first character, no recursion yet, and
\* the caller's fresh, empty output string.
ParseStart(sig) ==
    [ pc |-> "type", signature |-> sig, cursor |-> 1, stack |-> << >>,
      name |-> "", result |-> FALSE, output |-> "", prior |-> << >> ]

\* Failure: Parse returns false and leaves the output as it was.
Fail(c) ==
    [c EXCEPT !.pc = "returned", !.result = FALSE, !.stack = << >>,
              !.name = ""]

\* Variant of ReadType: the array branch recurses without moving the cursor
\* past the array marker.
ReadType_NoAdvance(c, typename) ==
    IF c.cursor > Len(c.signature)
    THEN Fail(c)
    ELSE LET code == c.signature[c.cursor]
         IN  IF code \in BasicCodes
             THEN [c EXCEPT !.name = BasicTypename(code, typename),
                            !.cursor = @ + 1, !.pc = "close"]
             ELSE IF code = DBUS_TYPE_ARRAY
             THEN [c EXCEPT
                     !.stack = Append(@,
                         [ kind |-> "array", start |-> c.cursor,
                           key |-> "" ])]
             ELSE Fail(c)

\* Step 2: read one character at the cursor and classify it.
ReadType(c, typename) ==
    IF c.cursor > Len(c.signature)
    THEN Fail(c)
    ELSE LET code == c.signature[c.cursor]
         IN  IF code \in BasicCodes
             THEN [c EXCEPT !.name = BasicTypename(code, typename),
                            !.cursor = @ + 1, !.pc = "close"]
             ELSE IF code = DBUS_TYPE_ARRAY
             THEN IF c.cursor + 1 > Len(c.signature)
                  THEN Fail(c)
                  ELSE IF c.signature[c.cursor + 1] = DBUS_DICT_ENTRY_BEGIN_CHAR
                  THEN IF /\ c.cursor + 2 <= Len(c.signature)
                          /\ c.signature[c.cursor + 2] \in BasicCodes
                       THEN [c EXCEPT
                               !.stack = Append(@,
                                   [ kind |-> "dict", start |-> c.cursor,
                                     key |-> BasicTypename(
                                         c.signature[c.cursor + 2], typename) ]),
                               !.cursor = @ + 3]
                       ELSE Fail(c)
                  ELSE [c EXCEPT
                          !.stack = Append(@,
                              [ kind |-> "array", start |-> c.cursor,
                                key |-> "" ]),
                          !.cursor = @ + 1]
             ELSE Fail(c)

\* A nested type has been resolved to c.name: hand it to the container that
\* asked for it, or, with no container left, return it from Parse.
CloseContainer(c) ==
    IF c.stack = << >>
    THEN [c EXCEPT !.pc = "returned", !.result = TRUE, !.output = c.name,
                   !.name = ""]
    ELSE LET top == c.stack[Len(c.stack)]
             rest == SubSeq(c.stack, 1, Len(c.stack) - 1)
         IN  IF top.kind = "array"
             THEN [c EXCEPT !.stack = rest,
                            !.name = kArrayTypenamePrefix \o c.name
                                       \o kTypenameSuffix]
             ELSE IF /\ c.cursor <= Len(c.signature)
                     /\ c.signature[c.cursor] = DBUS_DICT_ENTRY_END_CHAR
             THEN [c EXCEPT !.stack = rest, !.cursor = @ + 1,
                            !.name = kDictTypenamePrefix \o top.key
                                       \o kTypenameSeparator \o c.name
                                       \o kTypenameSuffix]
             ELSE Fail(c)

Running(c) == c.pc \in {"type", "close"}

\* Variant of Step: the key of a dict-entry is parsed as any nested type,
\* not only a basic one.
Step_ContainerKey(c, typename) ==
    IF c.pc = "type"
    THEN IF /\ c.cursor + 1 <= Len(c.signature)
            /\ c.signature[c.cursor] = DBUS_TYPE_ARRAY
            /\ c.signature[c.cursor + 1] = DBUS_DICT_ENTRY_BEGIN_CHAR
         THEN [c EXCEPT
                 !.stack = Append(@,
                     [ kind |-> "key", start |-> c.cursor, key |-> "" ]),
                 !.cursor = @ + 2]
         ELSE ReadType(c, typename)
    ELSE IF c.stack # << >> /\ c.stack[Len(c.stack)].kind = "key"
         THEN [c EXCEPT
                 !.stack[Len(c.stack)] =
                     [ kind |-> "dict", start |-> @.start, key |-> c.name ],
                 !.pc = "type"]
         ELSE CloseContainer(c)

\* One step of a running Parse.
Step(c, typename) ==
    IF c.pc = "type" THEN ReadType(c, typename) ELSE CloseContainer(c)

\* Parse run to its return, with no other caller and no Configure.
RECURSIVE Run(_, _)
Run(c, typename) ==
    IF Running(c) THEN Run(Step(c, typename), typename) ELSE c

Parse(sig, typename) == Run(ParseStart(sig), typename)

(***************************************************************************)
(* Inputs.                                                                 *)
(***************************************************************************)
\* Characters of the exhaustively enumerated signatures: the structural
\* ones, a basic code (the object path, the one whose name is configured)
\* and an unknown code.
SigAlphabet == { "a", "{", "}", "o", "l" }

BoundedSignatures ==
    UNION { [1..n -> SigAlphabet] : n \in 0..MaxSigLen }

TestSignatures == FailingSignatures \cup SucceedingSignatures

\* Container types used in the place of a dict-entry key.
ContainerKeys == { kByteArraySignature, kStringStringDictSignature }

\* Text appended after a signature.
Trailing ==
    { <<"}">>, <<"{">>, <<"a">>, <<"s", "}">>, <<"l", "a", "{">> }

\* The test's signatures nested once more: as an array element, as the
\* value of a dict-entry under every basic key and under a container key,
\* and followed by trailing text.
NestedSignatures ==
    { <<DBUS_TYPE_ARRAY>> \o x : x \in TestSignatures }
    \cup { <<DBUS_TYPE_ARRAY, DBUS_DICT_ENTRY_BEGIN_CHAR, k>> \o x
             \o <<DBUS_DICT_ENTRY_END_CHAR>> :
           k \in BasicCodes, x \in TestSignatures }
    \cup { <<DBUS_TYPE_ARRAY, DBUS_DICT_ENTRY_BEGIN_CHAR>> \o k \o x
             \o <<DBUS_DICT_ENTRY_END_CHAR>> :
           k \in ContainerKeys, x \in TestSignatures }
    \cup { x \o g : x \in TestSignatures, g \in Trailing }

Inputs == BoundedSignatures \cup TestSignatures \cup NestedSignatures

\* Signatures parsed by concurrent callers.
ConcurrentInputs ==
    { DBUS_TYPE_OBJECT_PATH_AS_STRING, kObjectArraySignature,
      kObjectNameDictSignature, kStringStringVariantDictSignature,
      kObjectDictBlobSignature, kMissingArraryParameterSignature,
      kTooFewDictMembersSignature, kTooManyDictMembersSignature,
      kUnknownSignature }

\* Names handed to set_object_path_typename: the test's, and one that is no
\* typename at all.
ObjectPathTypenames == { kObjectPathTypename, "not a typename" }

Callers == 1..NumCallers

\* The caller of the single-threaded test body.
MainCaller == 1

(***************************************************************************)
(* State.                                                                  *)
(***************************************************************************)
VARIABLES
    object_path_typename_,  \* DbusSignature's configured object-path name
    configured,             \* << >>, or <<n>> for the latest Configure(n)
    call                    \* per caller: its Parse call and its output

vars == <<object_path_typename_, configured, call>>

Init ==
    /\ object_path_typename_ = kDefaultObjectPathTypename
    /\ configured = << >>
    /\ call = [t \in Callers |-> IdleCall]

(***************************************************************************)
(* Operations.                                                             *)
(***************************************************************************)
\* signature_.set_object_path_typename(name), between Parse calls.
set_object_path_typename(name) ==
    /\ \A t \in Callers : call[t].pc = "idle"
    /\ object_path_typename_' = name
    /\ configured' = <<name>>
    /\ UNCHANGED call

\* A caller declares `string output` and enters signature_.Parse(sig, &output)
\* with one of the signatures sigs.
ParseCall(t, sigs) ==
    /\ call[t].pc = "idle"
    /\ \E sig \in sigs : call' = [call EXCEPT ![t] = ParseStart(sig)]
    /\ UNCHANGED <<object_path_typename_, configured>>

\* A caller whose Parse has returned calls it again on the same signature,
\* keeping what the first call returned.
ParseAgain(t) ==
    /\ call[t].pc = "returned"
    /\ call' = [call EXCEPT ![t] =
                  [ParseStart(call[t].signature) EXCEPT
                     !.prior = << [ result |-> call[t].result,
                                    output |-> call[t].output ] >>]]
    /\ UNCHANGED <<object_path_typename_, configured>>

\* Variant of ParseStep: resolving the object-path code puts the configured
\* name back to its default.
ParseStep_ForgetsTypename(t) ==
    /\ Running(call[t])
    /\ call' = [call EXCEPT ![t] = Step(call[t], object_path_typename_)]
    /\ object_path_typename_' =
          IF /\ call[t].pc = "type"
             /\ call[t].cursor <= Len(call[t].signature)
             /\ call[t].signature[call[t].cursor] = "o"
          THEN kDefaultObjectPathTypename
          ELSE object_path_typename_
    /\ UNCHANGED configured

\* Variant of ParseStep: the cursor is a member of the instance, so a step
\* moves the cursor of every running call.
ParseStep_SharedCursor(t) ==
    /\ Running(call[t])
    /\ LET stepped == Step(call[t], object_path_typename_)
       IN  call' = [u \in Callers |->
                      IF u = t THEN stepped
                      ELSE IF Running(call[u])
                      THEN [call[u] EXCEPT !.cursor = stepped.cursor]
                      ELSE call[u]]
    /\ UNCHANGED <<object_path_typename_, configured>>

\* One step of a running Parse: it reads the configured name and writes the
\* caller's own cursor, stack and output.
ParseStep(t) ==
    /\ Running(call[t])
    /\ call' = [call EXCEPT ![t] = Step(call[t], object_path_typename_)]
    /\ UNCHANGED <<object_path_typename_, configured>>

\* The end of the loop body: the result has been examined and `output` goes
\* out of scope.
EndIteration(t) ==
    /\ call[t].pc = "returned"
    /\ call' = [call EXCEPT ![t] = IdleCall]
    /\ UNCHANGED <<object_path_typename_, configured>>

\* Single-threaded use, as in the test bodies.
Next ==
    \/ \E name \in ObjectPathTypenames : set_object_path_typename(name)
    \/ ParseCall(MainCaller, Inputs)
    \/ ParseAgain(MainCaller)
    \/ ParseStep(MainCaller)
    \/ EndIteration(MainCaller)

Spec == Init /\ [][Next]_vars

\* Several callers inside Parse on the same instance; Configure only while
\* no caller is.
ConcurrentNext ==
    \/ \E name \in ObjectPathTypenames : set_object_path_typename(name)
    \/ \E t \in Callers :
         \/ ParseCall(t, ConcurrentInputs)
         \/ ParseStep(t)
         \/ EndIteration(t)

ConcurrentSpec == Init /\ [][ConcurrentNext]_vars

\* The same use, with a running Parse always given its next step.
FairSpec == Spec /\ WF_vars(ParseStep(MainCaller))

(***************************************************************************)
(* Vocabulary of the properties.                                           *)
(***************************************************************************)
\* The main caller's call.
Main == call[MainCaller]

Returned(c) == c.pc = "returned"

\* The basic codes of the grammar T ::= basic | 'a' T | 'a{' basic T '}'.
GrammarBasic ==
    { "b", "y", "d", "o", "n", "i", "x", "s", "h", "q", "u", "t", "v" }

\* The position just after the complete type of T that starts at pos in sig,
\* or 0 when no complete type starts there.
RECURSIVE TypeEnd(_, _)
TypeEnd(sig, pos) ==
    IF pos > Len(sig) THEN 0
    ELSE IF sig[pos] \in GrammarBasic THEN pos + 1
    ELSE IF sig[pos] # "a" THEN 0
    ELSE IF pos + 1 <= Len(sig) /\ sig[pos + 1] = "{"
    THEN IF pos + 2 <= Len(sig) /\ sig[pos + 2] \in GrammarBasic
         THEN LET e == TypeEnd(sig, pos + 3)
              IN  IF e # 0 /\ e <= Len(sig) /\ sig[e] = "}" THEN e + 1 ELSE 0
         ELSE 0
    ELSE TypeEnd(sig, pos + 1)

BeginsWithType(sig) == TypeEnd(sig, 1) # 0

IsCompleteType(sig) == TypeEnd(sig, 1) = Len(sig) + 1

\* name(X): the output of Parse(X) under the present configuration.
NameOf(sig) == Parse(sig, object_path_typename_).output

\* The object-path name the callers have asked for.
ExpectedObjectPathTypename ==
    IF configured = << >> THEN kDefaultObjectPathTypename ELSE configured[1]

\* parts joined, with each "%o" replaced by name.
RECURSIVE Fill(_, _)
Fill(parts, name) ==
    IF parts = << >> THEN ""
    ELSE (IF Head(parts) = "%o" THEN name ELSE Head(parts))
           \o Fill(Tail(parts), name)

\* Signatures with the object-path code at the top level, as an array
\* element, as a dict key and as a dict value, at one and two levels of
\* nesting, each with the typename it has to yield.
ObjectPathPositions ==
    { << <<"o">>, <<"%o">> >>,
      << <<"a", "o">>, <<"std::vector<", "%o", ">">> >>,
      << <<"a", "a", "o">>, <<"std::vector<std::vector<", "%o", ">>">> >>,
      << <<"a", "{", "o", "s", "}">>, <<"std::map<", "%o", ",std::string>">> >>,
      << <<"a", "{", "s", "o", "}">>, <<"std::map<std::string,", "%o", ">">> >>,
      << <<"a", "{", "o", "o", "}">>, <<"std::map<", "%o", ",", "%o", ">">> >>,
      << <<"a", "{", "s", "a", "o", "}">>,
         <<"std::map<std::string,std::vector<", "%o", ">>">> >>,
      << <<"a", "{", "s", "a", "{", "o", "s", "}", "}">>,
         <<"std::map<std::string,std::map<", "%o", ",std::string>>">> >>,
      << <<"a", "{", "o", "a", "{", "s", "a", "{", "s", "v", "}", "}", "}">>,
         <<"std::map<", "%o",
           ",std::map<std::string,std::map<std::string,chromeos::Any>>>">> >> }

\* The entries of the test's map whose signature is an array, not a dict.
ArrayParseValues == { pv \in complex_parse_values : pv[1][2] # "{" }

\* The entries of the test's map whose signature is one whole dict.
DictParseValues ==
    { pv \in complex_parse_values :
        pv[1][2] = "{" /\ pv[1][Len(pv[1])] = "}" }

\* Progress measure of a call: what is left of the signature, the open
\* containers and the stage of the step.
Measure(c) ==
    2 * (Len(c.signature) + 1 - c.cursor) + Len(c.stack)
      + (IF c.pc = "type" THEN 2 ELSE IF c.pc = "close" THEN 1 ELSE 0)

(***************************************************************************)
(* Properties.                                                             *)
(***************************************************************************)
\* C1: Parse returns false for every input that does not begin with a
\* complete type of the grammar, and for each of the eleven failing
\* signatures of the test.
C1_RejectsMalformed ==
    Returned(Main) =>
        /\ ~BeginsWithType(Main.signature) => Main.result = FALSE
        /\ Main.signature \in FailingSignatures => Main.result = FALSE

C1_Witness ==
    /\ Returned(Main)
    /\ Main.signature = kTooManyDictMembersSignature
    /\ Main.result = FALSE

\* C2: for each of the thirteen basic type codes, Parse of the
\* one-character signature returns true with the fixed name the test
\* expects; only the object-path code follows the configured name.
C2_BasicTypenames ==
    /\ { pv[1] : pv \in simple_parse_values } = { <<k>> : k \in GrammarBasic }
    /\ Cardinality(simple_parse_values) = 13
    /\ Returned(Main) =>
         \A pv \in simple_parse_values :
            Main.signature = pv[1] =>
               /\ Main.result = TRUE
               /\ Main.output =
                    IF pv[1] = DBUS_TYPE_OBJECT_PATH_AS_STRING
                    THEN object_path_typename_
                    ELSE pv[2]

C2_Witness ==
    /\ Returned(Main)
    /\ Main.signature = DBUS_TYPE_UNIX_FD_AS_STRING
    /\ Main.output = kUnixFdTypename
    /\ configured = <<"not a typename">>

\* C3: the object-path code resolves, at the top level and at every nesting
\* position, to the name of the most recent set_object_path_typename call,
\* or to kDefaultObjectPathTypename when there was none; any name is taken.
C3_ObjectPathFollowsConfigure ==
    /\ object_path_typename_ = ExpectedObjectPathTypename
    /\ Returned(Main) =>
         /\ \A pos \in ObjectPathPositions :
               Main.signature = pos[1] =>
                  /\ Main.result = TRUE
                  /\ Main.output = Fill(pos[2], ExpectedObjectPathTypename)
         /\ configured = <<kObjectPathTypename>> =>
               /\ Main.signature = kObjectArraySignature =>
                     Main.output = kObjectArrayTypename
               /\ Main.signature = kObjectDictBlobSignature =>
                     Main.output = kObjectDictBlobTypename
               /\ Main.signature = kObjectNameDictSignature =>
                     Main.output = kObjectNameDictTypename

C3_Witness ==
    /\ Returned(Main)
    /\ Main.signature = <<"a", "{", "s", "a", "{", "o", "s", "}", "}">>
    /\ configured = <<"not a typename">>
    /\ Main.output = "std::map<std::string,std::map<not a typename,std::string>>"

\* C4: when Parse(X) succeeds, Parse("a" + X) succeeds with
\* "std::vector<" + name(X) + ">"; the array entries of the test's map are
\* such cases.
C4_ArrayOf ==
    Returned(Main) =>
        /\ ( /\ Len(Main.signature) >= 1
             /\ Main.signature[1] = "a"
             /\ Parse(Tail(Main.signature), object_path_typename_).result )
           => /\ Main.result = TRUE
              /\ Main.output =
                   "std::vector<" \o NameOf(Tail(Main.signature)) \o ">"
        /\ \A pv \in ArrayParseValues :
              ( /\ Main.signature = pv[1]
                /\ configured = <<kObjectPathTypename>> )
              => Main.result = TRUE /\ Main.output = pv[2]

C4_Witness ==
    /\ Returned(Main)
    /\ Main.signature = <<"a">> \o kStringStringVariantDictSignature
    /\ Main.output =
         "std::vector<std::map<std::string,std::map<std::string,chromeos::Any>>>"

\* C5: for a basic key code K and a complete type V,
\* Parse("a{" + K + V + "}") succeeds with
\* "std::map<" + name(K) + "," + name(V) + ">"; the dict entries of the
\* test's map are such cases.
C5_DictOf ==
    Returned(Main) =>
        LET sig == Main.signature
            n == Len(sig)
        IN  /\ ( /\ n >= 5
                 /\ sig[1] = "a" /\ sig[2] = "{" /\ sig[n] = "}"
                 /\ sig[3] \in GrammarBasic
                 /\ IsCompleteType(SubSeq(sig, 4, n - 1)) )
               => /\ Main.result = TRUE
                  /\ Main.output =
                       "std::map<" \o NameOf(<<sig[3]>>) \o ","
                         \o NameOf(SubSeq(sig, 4, n - 1)) \o ">"
            /\ \A pv \in DictParseValues :
                  (sig = pv[1] /\ configured = <<kObjectPathTypename>>)
                  => Main.result = TRUE /\ Main.output = pv[2]

C5_Witness ==
    /\ Returned(Main)
    /\ Main.signature = <<"a", "{", "h">> \o kObjectDictBlobSignature \o <<"}">>
    /\ Main.result = TRUE
    /\ configured = << >>

\* C6: when a leading part X of the input is one complete type, Parse of
\* the whole input succeeds with the output of Parse(X), whatever follows X.
C6_PrefixPolicy ==
    Returned(Main) =>
        /\ \A k \in 1..Len(Main.signature) :
              IsCompleteType(SubSeq(Main.signature, 1, k))
              => /\ Main.result = TRUE
                 /\ Parse(SubSeq(Main.signature, 1, k),
                          object_path_typename_).result = TRUE
                 /\ Main.output = NameOf(SubSeq(Main.signature, 1, k))
        /\ Main.signature = kStringVariantDictWithTrailingSignature
           => Main.result = TRUE /\ Main.output = kStringVariantDictTypename

C6_Witness ==
    /\ Returned(Main)
    /\ Main.signature = kObjectNameDictSignature \o <<"l", "a", "{">>
    /\ Main.result = TRUE
    /\ Main.output = "std::map<not a typename,std::string>"

\* C7: a dict-entry whose key is a complete container type is rejected, even
\* when a complete value type and the closing brace follow it.
C7_ContainerKeyRejected ==
    Returned(Main) =>
        LET sig == Main.signature
            n == Len(sig)
            keyEnd == TypeEnd(sig, 3)
        IN  ( /\ n >= 6
              /\ sig[1] = "a" /\ sig[2] = "{" /\ sig[3] = "a" /\ sig[n] = "}"
              /\ keyEnd # 0
              /\ TypeEnd(sig, keyEnd) = n )
            => Main.result = FALSE

C7_Witness ==
    /\ Returned(Main)
    /\ Main.signature =
         <<"a", "{">> \o kStringStringDictSignature
           \o kByteArrayArraySignature \o <<"}">>
    /\ Main.result = FALSE

C9_Terminates ==
    /\ [](Running(Main) =>
            /\ Main.cursor \in 1..(Len(Main.signature) + 1)
            /\ Len(Main.stack) <= Len(Main.signature)
            /\ \A i \in 1..Len(Main.stack) :
                  Main.stack[i].start <
                     (IF i < Len(Main.stack) THEN Main.stack[i + 1].start
                      ELSE Main.cursor))
    /\ [](Returned(Main) => Main.result \in BOOLEAN /\ Main.stack = << >>)
    /\ [][Running(Main) =>
            /\ call'[MainCaller].cursor >= Main.cursor
            /\ Measure(call'[MainCaller]) < Measure(Main)]_vars
    /\ (Running(Main) ~> Returned(Main))

C9_Witness ==
    /\ Main.pc = "type"
    /\ Main.signature = kObjectDictBlobSignature
    /\ Len(Main.stack) = 3
    /\ Main.cursor = 10

=============================================================================
